---- MODULE Spec2Model ----
(***************************************************************************)
(* State-vector decoding layer of go-opensky-api: parseState,              *)
(* parseStatesResponse and the coercion helpers they call.                 *)
(*                                                                         *)
(* A decoded JSON value (Go interface{}) is a record                       *)
(*   [t |-> dynamic type, s |-> string, f |-> number, b |-> bool,          *)
(*    a |-> elements]                                                      *)
(* of which only the component selected by t is meaningful.  A float64 is  *)
(* held as its numerator over Scale, so that int64(f) is a real            *)
(* truncation toward zero and not the identity.                            *)
(***************************************************************************)
EXTENDS Integers, Sequences, FiniteSets, TLC

\* ---------------------------------------------------------------- bounds
Scale == 2          \* a float64 x is held as the integer x * Scale
MaxNum == 4         \* floats range over -MaxNum .. MaxNum
MaxIndex == 1       \* record indices passed to parseState: 0 .. MaxIndex
MaxRecords == 2     \* longest record list of an envelope
MaxArray == 2       \* longest float array passed to the array coercion
MaxRaw == 3         \* longest JSON text passed to UnmarshalJSON, besides null
MaxTime == 1        \* capture times of an envelope: -MaxTime .. MaxTime

\* ------------------------------------------------------ program constants
NumFields == 17     \* the number of positional fields of a state vector
ADSB == 0
ASTERIX == 1
MLAT == 2
FLARM == 3
StatusOK == 200     \* http.StatusOK

PositionSources == {ADSB, ASTERIX, MLAT, FLARM}

\* ------------------------------------------------------- generic values
Val(t, s, f, b, a) == [t |-> t, s |-> s, f |-> f, b |-> b, a |-> a]

Nil == Val("nil", "", 0, FALSE, <<>>)
Str(x) == Val("string", x, 0, FALSE, <<>>)
Float(n) == Val("float64", "", n, FALSE, <<>>)
Whole(n) == Float(n * Scale)
Bool(x) == Val("bool", "", 0, x, <<>>)
GoInt(n) == Val("int", "", n, FALSE, <<>>)
FloatArray(q) == Val("[]float64", "", 0, FALSE, q)
IntArray(q) == Val("[]int", "", 0, FALSE, q)
AnyArray(q) == Val("[]interface {}", "", 0, FALSE, q)
Object == Val("map[string]interface {}", "", 0, FALSE, <<>>)

\* Mutant: rounding toward minus infinity.
TruncFloor(n) == n \div Scale

\* int64(f) and int(f) of a float64 within range: truncation toward zero.
Trunc(n) == IF n >= 0 THEN n \div Scale ELSE -((-n) \div Scale)

IsIntegral(n) == n % Scale = 0

\* ------------------------------------------------------------ time.go
\* A UnixTime wraps a time.Time.  time.Unix(sec, 0) is sec seconds after
\* the epoch; time.Time{} is the zero time (year 1), a different instant.
newUnixTime(sec) == [zero |-> FALSE, sec |-> sec]

ZeroUnixTime == [zero |-> TRUE, sec |-> 0]

\* ------------------------------------------------------------- errors
\* An error is what fmt.Errorf was given: the message, the record index,
\* the printed value, the element count (shape error only) and the message
\* of the wrapped coercion error (%w), "" when there is none.
Err(msg, pos, val, cnt, wraps) ==
  [msg |-> msg, position |-> pos, value |-> val, count |-> cnt, wraps |-> wraps]

NoError == Err("", 0, Nil, 0, "")

\* Mutant: the expected count reported in place of the actual one.
ShapeErrorExpected(i, n) == Err("invalid state object", i, Nil, NumFields, "")

ShapeError(i, n) == Err("invalid state object", i, Nil, n, "")

FieldError(name, i, val) == Err(name, i, val, 0, "")

WrapError(name, i, inner) == Err(name, i, inner.value, 0, inner.msg)

\* ------------------------------------------- time.go: UnmarshalJSON
\* A []byte is held as the sequence of its characters.
NullLiteral == <<"n", "u", "l", "l">>

Digits == {"0", "1", "2", "3", "4", "5", "6", "7", "8", "9"}

DigitValue(c) ==
  CASE c = "0" -> 0 [] c = "1" -> 1 [] c = "2" -> 2 [] c = "3" -> 3 [] c = "4" -> 4
    [] c = "5" -> 5 [] c = "6" -> 6 [] c = "7" -> 7 [] c = "8" -> 8 [] c = "9" -> 9

\* strconv.ParseUint(q, 10, 64) of a string of digits short enough to fit.
RECURSIVE parseUint(_)
parseUint(q) ==
  IF q = <<>> THEN 0
  ELSE parseUint(SubSeq(q, 1, Len(q) - 1)) * 10 + DigitValue(q[Len(q)])

\* strconv.ParseInt(raw, 10, 64): an optional sign, "+" or "-", then one or
\* more decimal digits; anything else is a syntax error with the value 0.
\* (The range error needs more digits than the strings held here.)
ParseInt(raw) ==
  LET signed == raw # <<>> /\ raw[1] \in {"+", "-"}
      body == IF signed THEN Tail(raw) ELSE raw
  IN IF body = <<>> \/ \E k \in 1 .. Len(body) : body[k] \notin Digits
       THEN [i |-> 0, err |-> Err("strconv.ParseInt", 0, Nil, 0, "invalid syntax")]
       ELSE [i |-> IF raw[1] = "-" THEN -parseUint(body) ELSE parseUint(body),
             err |-> NoError]

\* Mutant: null decodes to unix time zero.
UnmarshalJSONNullAsEpoch(t, raw) ==
  IF raw = NullLiteral THEN [t |-> newUnixTime(0), err |-> NoError]
  ELSE IF ParseInt(raw).err # NoError THEN [t |-> t, err |-> ParseInt(raw).err]
  ELSE [t |-> newUnixTime(ParseInt(raw).i), err |-> NoError]

\* Mutant: the target is reset before the literal is parsed.
UnmarshalJSONResets(t, raw) ==
  IF raw = NullLiteral THEN [t |-> ZeroUnixTime, err |-> NoError]
  ELSE IF ParseInt(raw).err # NoError THEN [t |-> ZeroUnixTime, err |-> ParseInt(raw).err]
  ELSE [t |-> newUnixTime(ParseInt(raw).i), err |-> NoError]

\* (t *UnixTime) UnmarshalJSON(raw): the value of *t afterwards and the error.
\* null stores UnixTime{time.Time{}}; an integer stores time.Unix(n, 0); on a
\* parse error the method returns before any store.
UnmarshalJSON(t, raw) ==
  IF raw = NullLiteral THEN [t |-> ZeroUnixTime, err |-> NoError]
  ELSE IF ParseInt(raw).err # NoError THEN [t |-> t, err |-> ParseInt(raw).err]
  ELSE [t |-> newUnixTime(ParseInt(raw).i), err |-> NoError]

\* ------------------------------------------------------- coercions
jsonNumberToInt(val) ==
  IF val.t # "float64"
    THEN [i |-> 0, err |-> Err("couldn't parse as number", 0, val, 0, "")]
    ELSE [i |-> Trunc(val.f), err |-> NoError]

\* A Go slice: nil, or a (possibly empty) sequence of elements.
NilSlice == [nil |-> TRUE, elems |-> <<>>]

Slice(q) == [nil |-> FALSE, elems |-> q]

\* Mutant: an integer-typed array is let through as well.
jsonNumberArrayToIntArrayLenient(val) ==
  IF val.t \notin {"[]float64", "[]int"}
    THEN [a |-> NilSlice, err |-> Err("couldn't parse as number array", 0, val, 0, "")]
    ELSE [a |-> IF val.a = <<>> THEN NilSlice
                ELSE Slice([k \in 1..Len(val.a) |->
                             IF val.t = "[]int" THEN val.a[k] ELSE Trunc(val.a[k])]),
          err |-> NoError]

\* a starts nil and is appended to once per element: an empty []float64
\* yields the nil slice.
jsonNumberArrayToIntArray(val) ==
  IF val.t # "[]float64"
    THEN [a |-> NilSlice, err |-> Err("couldn't parse as number array", 0, val, 0, "")]
    ELSE [a |-> IF val.a = <<>> THEN NilSlice
                ELSE Slice([k \in 1..Len(val.a) |-> Trunc(val.a[k])]),
          err |-> NoError]

\* ------------------------------------------------------------- State
\* Pointer fields: nil, or a pointer to a value.
NilPtr == [nil |-> TRUE, v |-> 0]

Ptr(x) == [nil |-> FALSE, v |-> x]

NilTimePtr == [nil |-> TRUE, v |-> ZeroUnixTime]

ZeroState ==
  [ICAO24 |-> "", CallSign |-> "", OriginCountry |-> "",
   TimePosition |-> NilTimePtr, LastContact |-> ZeroUnixTime,
   Longitude |-> NilPtr, Latitude |-> NilPtr, GeoAltitude |-> NilPtr,
   OnGround |-> FALSE, Velocity |-> NilPtr, Heading |-> NilPtr,
   VerticalRate |-> NilPtr, Sensors |-> NilSlice,
   BarometricAltitude |-> NilPtr, Squawk |-> "", Spi |-> FALSE,
   PositionSource |-> 0]

\* Mutant: longitude and latitude read from each other's position.
FieldSwapped(s, k) == s[(IF k = 5 THEN 6 ELSE IF k = 6 THEN 5 ELSE k) + 1]

\* s[k] of the Go code: the field at 0-based position k.
Field(s, k) == s[k + 1]

\* Mutant: the failed type assertion is not dropped.
FloatPtrAny(val) == Ptr(val.f)

\* The permissive branch: "if raw, ok := s[k].(float64); ok { p = &raw }".
FloatPtr(val) == IF val.t = "float64" THEN Ptr(val.f) ELSE NilPtr

\* Mutant: a code outside the enumeration falls back to ADSB.
toPositionSourceClosed(n) == IF n \in PositionSources THEN n ELSE ADSB

\* PositionSource(positionSource): int64 to the int-based enumeration type,
\* without any range check.
toPositionSource(n) == n

\* The checks of parseState, by the kind of field they guard.
\* "x, ok := s[k].(string); if !ok { err = ...; return }"
RequiredStringError(name, i, val) ==
  IF val.t # "string" THEN FieldError(name, i, val) ELSE NoError

\* Mutant: a wrong-typed optional string is silently dropped.
OptionalStringErrorDropped(name, i, val) == NoError

\* "if s[k] != nil { x, ok = s[k].(string); if !ok { err = ...; return } }"
OptionalStringError(name, i, val) ==
  IF val.t # "nil" /\ val.t # "string" THEN FieldError(name, i, val) ELSE NoError

\* Mutant: the ok flag of the bool assertion is ignored.
RequiredBoolErrorLenient(name, i, val) == NoError

\* "x, ok := s[k].(bool); if !ok { err = ...; return }"
RequiredBoolError(name, i, val) ==
  IF val.t # "bool" THEN FieldError(name, i, val) ELSE NoError

\* "x, err = jsonNumberToInt(s[k]); if err != nil { err = ...%w; return }"
RequiredNumberError(name, i, val) ==
  IF jsonNumberToInt(val).err # NoError
    THEN WrapError(name, i, jsonNumberToInt(val).err) ELSE NoError

\* "if s[k] != nil { x, err = jsonNumberToInt(s[k]); if err != nil {...} }"
OptionalNumberError(name, i, val) ==
  IF val.t # "nil" THEN RequiredNumberError(name, i, val) ELSE NoError

\* "if s[12] != nil { sensors, err = jsonNumberArrayToIntArray(s[12]); ... }"
OptionalArrayError(name, i, val) ==
  IF val.t # "nil" /\ jsonNumberArrayToIntArray(val).err # NoError
    THEN WrapError(name, i, jsonNumberArrayToIntArray(val).err) ELSE NoError

\* Mutant: a code outside the enumeration is rejected.
PositionSourceErrorClosed(i, val) ==
  IF val.t # "float64" \/ Trunc(val.f) \notin PositionSources
    THEN FieldError("invalid position_source value", i, val) ELSE NoError

\* The position_source check: any float64 passes.
PositionSourceError(i, val) ==
  RequiredNumberError("invalid position_source value", i, val)

\* The error parseState raises at position k, NoError when that position
\* passes (positions 5, 6, 7, 9, 10, 11 and 13 always pass).
FieldErrorAt(s, i, k) ==
  CASE k = 0 -> RequiredStringError("invalid icao24 value", i, Field(s, 0))
    [] k = 1 -> OptionalStringError("invalid callsign value", i, Field(s, 1))
    [] k = 2 -> RequiredStringError("invalid origin_country value", i, Field(s, 2))
    [] k = 3 -> OptionalNumberError("invalid time_position value", i, Field(s, 3))
    [] k = 4 -> RequiredNumberError("invalid last_contact value", i, Field(s, 4))
    [] k = 8 -> RequiredBoolError("invalid on_ground value", i, Field(s, 8))
    [] k = 12 -> OptionalArrayError("invalid sensors value", i, Field(s, 12))
    [] k = 14 -> OptionalStringError("invalid squawk value", i, Field(s, 14))
    [] k = 15 -> RequiredBoolError("invalid spi value", i, Field(s, 15))
    [] k = 16 -> PositionSourceError(i, Field(s, 16))
    [] OTHER -> NoError

\* The local variable parseState derives from position k, as the field of
\* the State literal it ends up in.
Assign(s, k, locals) ==
  CASE k = 0 -> [locals EXCEPT !.ICAO24 = Field(s, 0).s]
    [] k = 1 -> [locals EXCEPT !.CallSign =
                   IF Field(s, 1).t = "nil" THEN "" ELSE Field(s, 1).s]
    [] k = 2 -> [locals EXCEPT !.OriginCountry = Field(s, 2).s]
    [] k = 3 -> [locals EXCEPT !.TimePosition =
                   IF Field(s, 3).t = "nil" THEN NilTimePtr
                   ELSE Ptr(newUnixTime(jsonNumberToInt(Field(s, 3)).i))]
    [] k = 4 -> [locals EXCEPT !.LastContact =
                   newUnixTime(jsonNumberToInt(Field(s, 4)).i)]
    [] k = 5 -> [locals EXCEPT !.Longitude = FloatPtr(Field(s, 5))]
    [] k = 6 -> [locals EXCEPT !.Latitude = FloatPtr(Field(s, 6))]
    [] k = 7 -> [locals EXCEPT !.BarometricAltitude = FloatPtr(Field(s, 7))]
    [] k = 8 -> [locals EXCEPT !.OnGround = Field(s, 8).b]
    [] k = 9 -> [locals EXCEPT !.Velocity = FloatPtr(Field(s, 9))]
    [] k = 10 -> [locals EXCEPT !.Heading = FloatPtr(Field(s, 10))]
    [] k = 11 -> [locals EXCEPT !.VerticalRate = FloatPtr(Field(s, 11))]
    [] k = 12 -> [locals EXCEPT !.Sensors =
                    IF Field(s, 12).t = "nil" THEN NilSlice
                    ELSE jsonNumberArrayToIntArray(Field(s, 12)).a]
    [] k = 13 -> [locals EXCEPT !.GeoAltitude = FloatPtr(Field(s, 13))]
    [] k = 14 -> [locals EXCEPT !.Squawk =
                    IF Field(s, 14).t = "nil" THEN "" ELSE Field(s, 14).s]
    [] k = 15 -> [locals EXCEPT !.Spi = Field(s, 15).b]
    [] k = 16 -> [locals EXCEPT !.PositionSource =
                    toPositionSource(jsonNumberToInt(Field(s, 16)).i)]

\* Mutant: state is filled in as the fields are decoded.
FailureKeepsLocals(locals, e) == [state |-> locals, err |-> e]

\* An error return: the named result state was never assigned, so the
\* locals decoded so far are dropped and the zero State is returned.
Failure(locals, e) == [state |-> ZeroState, err |-> e]

\* The body of parseState after the length check: positions 0 .. 16 are
\* examined in increasing order, the first failing check returns, and the
\* State literal is built once all of them have passed.
RECURSIVE decodeFields(_, _, _, _)
decodeFields(s, i, k, locals) ==
  IF k = NumFields THEN [state |-> locals, err |-> NoError]
  ELSE IF FieldErrorAt(s, i, k) # NoError
    THEN Failure(locals, FieldErrorAt(s, i, k))
  ELSE decodeFields(s, i, k + 1, Assign(s, k, locals))

\* Mutant: all checks run and the last failing one is reported.
parseStateLastError(s, i) ==
  IF Len(s) < NumFields
    THEN Failure(ZeroState, ShapeError(i, Len(s)))
  ELSE IF \E k \in 0 .. (NumFields - 1) : FieldErrorAt(s, i, k) # NoError
    THEN Failure(ZeroState,
                 FieldErrorAt(s, i, CHOOSE k \in 0 .. (NumFields - 1) :
                   /\ FieldErrorAt(s, i, k) # NoError
                   /\ \A j \in (k + 1) .. (NumFields - 1) : FieldErrorAt(s, i, j) = NoError))
    ELSE decodeFields(s, i, 0, ZeroState)

parseState(s, i) ==
  IF Len(s) < NumFields
    THEN Failure(ZeroState, ShapeError(i, Len(s)))
    ELSE decodeFields(s, i, 0, ZeroState)

\* ---------------------------------------------------- parseStatesResponse
\* GetStatesResponse before the loop: Time set, States still nil (a []State
\* that is nil or was appended to; it is never empty and non-nil).
ZeroResponse == [Time |-> ZeroUnixTime, States |-> <<>>]

\* -------------------------------------------------- transport and wire
\* A JSON value of a response body: its kind and, by kind, the string, the
\* number (numerator over Scale), the bool or the numbers of an array.
JVal(k, str, f, b, a) == [k |-> k, s |-> str, f |-> f, b |-> b, a |-> a]

JNull == JVal("null", "", 0, FALSE, <<>>)
JStr(x) == JVal("string", x, 0, FALSE, <<>>)
JNum(x) == JVal("number", "", x, FALSE, <<>>)
JBool(x) == JVal("bool", "", 0, x, <<>>)
JArray(q) == JVal("array", "", 0, FALSE, q)
JObject == JVal("object", "", 0, FALSE, <<>>)

\* encoding/json storing a JSON value into an interface{}: a number becomes
\* a float64, an array a []interface{}, an object a map[string]interface{}.
unmarshalValue(j) ==
  CASE j.k = "null" -> Nil
    [] j.k = "string" -> Str(j.s)
    [] j.k = "number" -> Float(j.f)
    [] j.k = "bool" -> Bool(j.b)
    [] j.k = "array" -> AnyArray(j.a)
    [] j.k = "object" -> Object

\* json.Unmarshal(body, &rawResponse), rawResponse being a zero
\* unstructuredStateResponse: the text must be JSON, "time" an integer number
\* or null or missing (held as null), "states" an array of arrays or null or
\* missing; each element of a record is stored as unmarshalValue stores it.
unmarshalEnvelope(body) ==
  IF ~body.json
    THEN [raw |-> [Time |-> 0, States |-> NilSlice],
          err |-> Err("json: syntax error", 0, Nil, 0, "")]
  ELSE IF \/ body.time.k \notin {"null", "number"}
          \/ body.time.k = "number" /\ body.time.f % Scale # 0
          \/ body.states.k \notin {"null", "rows"}
    THEN [raw |-> [Time |-> 0, States |-> NilSlice],
          err |-> Err("json: cannot unmarshal", 0, Nil, 0, "")]
  ELSE [raw |->
          [Time |-> IF body.time.k = "null" THEN 0 ELSE body.time.f \div Scale,
           States |->
             IF body.states.k = "null" THEN NilSlice
             ELSE Slice([r \in 1 .. Len(body.states.rows) |->
                          [k \in 1 .. Len(body.states.rows[r]) |->
                             unmarshalValue(body.states.rows[r][k])]])],
        err |-> NoError]

\* Mutant: the status code is not looked at.
doHTTPAnyStatus(rep) ==
  IF rep.doErr
    THEN [raw |-> [Time |-> 0, States |-> NilSlice],
          err |-> Err("http: request failed", 0, Nil, 0, "")]
  ELSE IF rep.readErr
    THEN [raw |-> [Time |-> 0, States |-> NilSlice],
          err |-> Err("read: body failed", 0, Nil, 0, "")]
  ELSE unmarshalEnvelope(rep.body)

\* Client.doHTTP(request, &rawResponse): the error it returns and what it
\* leaves in rawResponse.  An error status carries the code in its message.
doHTTP(rep) ==
  IF rep.doErr
    THEN [raw |-> [Time |-> 0, States |-> NilSlice],
          err |-> Err("http: request failed", 0, Nil, 0, "")]
  ELSE IF rep.readErr
    THEN [raw |-> [Time |-> 0, States |-> NilSlice],
          err |-> Err("read: body failed", 0, Nil, 0, "")]
  ELSE IF rep.status # StatusOK
    THEN [raw |-> [Time |-> 0, States |-> NilSlice],
          err |-> Err("status", 0, Nil, rep.status, "")]
  ELSE unmarshalEnvelope(rep.body)

Callers == {"GetStates", "GetOwnStates"}

\* No HTTP exchange: the call did not come through GetStates or GetOwnStates.
NoReply == [doErr |-> FALSE, readErr |-> FALSE, status |-> 0, body |-> <<>>]

\* The results of a call that has not returned.
NoOutput == [err |-> NoError]

\* ------------------------------------------------------------- inputs
FloatNums == {-(MaxNum * Scale), -(Scale + 1), 1, MLAT * Scale, MaxNum * Scale + 1}

EditValues ==
  {Nil, Str("x"), Bool(TRUE), GoInt(ASTERIX), FloatArray(<<Scale + 1, -(Scale + 1)>>),
   FloatArray(<<>>), IntArray(<<ASTERIX>>), AnyArray(<<Scale>>), Object}
  \cup {Float(n) : n \in FloatNums}

\* Every optional field filled with a well-typed value, all values distinct.
BaseFull ==
  <<Str("ae1fa7"), Str("TALON71"), Str("United States"), Whole(MaxNum),
    Whole(MaxNum - 1), Float(-1), Float(Scale + 1), Float(2 * Scale + 1),
    Bool(TRUE), Float(3 * Scale + 1), Float(Scale), Float(-(2 * Scale + 1)),
    FloatArray(<<2 * Scale, Scale>>), Float(-(3 * Scale + 1)), Str("0753"),
    Bool(FALSE), Whole(FLARM)>>

\* Every optional field null.
BaseNull ==
  <<Str("a50c7c"), Nil, Str("Germany"), Nil, Whole(1), Nil, Nil, Nil,
    Bool(FALSE), Nil, Nil, Nil, Nil, Nil, Nil, Bool(TRUE), Whole(ADSB)>>

Bases == {BaseFull, BaseNull}

Positions == 0 .. (NumFields - 1)

Replace(r, k, v) == [r EXCEPT ![k + 1] = v]

Edited(rs) == {Replace(r, k, v) : r \in rs, k \in Positions, v \in EditValues}

\* Records of the wire length: a base with at most two fields replaced.
FullRecords == Bases \cup Edited(Bases) \cup Edited(Edited(Bases))

\* Records that are too short, of every length and with differing content,
\* and records with elements past the 17th.
ShortRecords ==
  {SubSeq(r, 1, n) : r \in Bases \cup {Replace(b, 0, v) : b \in Bases, v \in EditValues},
                     n \in 0 .. (NumFields - 1)}

LongRecords == {Append(r, v) : r \in Bases \cup Edited({BaseNull}), v \in {Nil, Object}}

StateRecords == FullRecords \cup ShortRecords \cup LongRecords

\* Records violating every position from k on, cut to every length from 16.
ViolatedFrom(r, k) ==
  [j \in 1 .. Len(r) |-> IF j > k THEN (IF j = 13 THEN Str("x") ELSE Object) ELSE r[j]]

ManyViolations ==
  {SubSeq(ViolatedFrom(r, k), 1, n) :
     r \in Bases, k \in Positions, n \in {NumFields - 1, NumFields}}

Indices == 0 .. MaxIndex

\* Records of an envelope: the valid bases and records failing at various
\* positions.
EnvelopeRecords ==
  Bases \cup {Replace(BaseNull, 15, Str("invalid_spi")), Replace(BaseFull, 12, AnyArray(<<Scale>>)),
              SubSeq(BaseFull, 1, NumFields - 1), Replace(BaseNull, 16, Whole(MaxNum))}

RECURSIVE SeqsUpTo(_, _)
SeqsUpTo(S, n) ==
  IF n = 0 THEN {<<>>}
  ELSE SeqsUpTo(S, n - 1)
       \cup {Append(q, x) : q \in {p \in SeqsUpTo(S, n - 1) : Len(p) = n - 1}, x \in S}

\* unstructuredStateResponse: States is nil or a list of records.
Envelopes ==
  {[Time |-> tm, States |-> st] :
     tm \in (-MaxTime) .. MaxTime,
     st \in {NilSlice} \cup {Slice(q) : q \in SeqsUpTo(EnvelopeRecords, MaxRecords)}}

\* -------------------------------------------------------------- state
VARIABLES
  call,         \* the function under execution
  pc,           \* its position: "start", "loop", "done"
  s, i,         \* the arguments of parseState
  state, err,   \* the results of parseState
  rawResponse,  \* the argument of parseStatesResponse
  response,     \* its named result response
  respErr,      \* its named result err
  n,            \* its loop index
  val,          \* the argument of a coercion or of UnmarshalJSON
  target,       \* the UnixTime that UnmarshalJSON is called on
  out,          \* the results of a coercion or of UnmarshalJSON
  caller,       \* GetStates or GetOwnStates when the call came through it
  reply         \* what the HTTP exchange of that call produces

vars == <<call, pc, s, i, state, err, rawResponse, response, respErr, n,
          val, target, out, caller, reply>>

\* The index only shows in the error, so the records with two replaced
\* fields are decoded at index 0 and all the others at every index.
InitParseState ==
  /\ call = "parseState"
  /\ \/ s \in StateRecords /\ i = 0
     \/ s \in Bases \cup Edited(Bases) \cup ShortRecords \cup LongRecords \cup ManyViolations
        /\ i \in Indices
  /\ rawResponse = [Time |-> 0, States |-> NilSlice]
  /\ val = Nil /\ target = ZeroUnixTime
  /\ caller = "" /\ reply = NoReply

InitParseStatesResponse ==
  /\ call = "parseStatesResponse"
  /\ rawResponse \in Envelopes
  /\ s = <<>>
  /\ i = 0
  /\ val = Nil /\ target = ZeroUnixTime
  /\ caller = "" /\ reply = NoReply

\* Arguments of the coercions: every decoded type, every float of the range,
\* float arrays of every length up to MaxArray.
CoercionValues ==
  EditValues
  \cup {Float(k) : k \in (-(MaxNum * Scale)) .. (MaxNum * Scale)}
  \cup {FloatArray(q) : q \in SeqsUpTo(FloatNums, MaxArray)}
  \cup {Str("foo"), Bool(FALSE), IntArray(<<>>), AnyArray(<<>>),
        IntArray(<<ASTERIX, -MaxNum>>)}

InitCoercion ==
  /\ call \in {"jsonNumberToInt", "jsonNumberArrayToIntArray"}
  /\ val \in CoercionValues
  /\ target = ZeroUnixTime
  /\ s = <<>> /\ i = 0
  /\ rawResponse = [Time |-> 0, States |-> NilSlice]
  /\ caller = "" /\ reply = NoReply

\* JSON texts handed to UnmarshalJSON: null, the literals of the tests in
\* short, and every string of up to MaxRaw characters of RawChars.
RawChars == {"-", "+", "0", "1", "7", ".", "e", "\""}

RawTexts ==
  SeqsUpTo(RawChars, MaxRaw)
  \cup {NullLiteral, <<"{", "}">>, <<"[", "]">>, <<"[", "1", "]">>,
        <<"\"", "s", "t", "r", "\"">>, <<"t", "r", "u", "e">>}

InitUnmarshalJSON ==
  /\ call = "UnmarshalJSON"
  /\ val \in RawTexts
  /\ target \in {ZeroUnixTime, newUnixTime(MaxTime)}
  /\ s = <<>> /\ i = 0
  /\ rawResponse = [Time |-> 0, States |-> NilSlice]
  /\ caller = "" /\ reply = NoReply

\* Records of a response body: all optional fields null; the same with a
\* sensors array; every field filled; a wrong-typed spi.
JsonRowNull ==
  <<JStr("a50c7c"), JNull, JStr("Germany"), JNull, JNum(Scale), JNull, JNull,
    JNull, JBool(FALSE), JNull, JNull, JNull, JNull, JNull, JNull, JBool(TRUE),
    JNum(ADSB)>>

JsonRowSensors == [JsonRowNull EXCEPT ![13] = JArray(<<MaxNum * Scale, Scale + 1>>)]

JsonRowFull ==
  <<JStr("ae1fa7"), JStr("TALON71"), JStr("United States"), JNum(MaxNum * Scale),
    JNum(MaxNum * Scale), JNum(-1), JNum(Scale + 1), JNum(2 * Scale + 1),
    JBool(TRUE), JNum(3 * Scale + 1), JNum(Scale), JNum(-(2 * Scale + 1)),
    JArray(<<Scale>>), JNum(-(3 * Scale + 1)), JStr("0753"), JBool(FALSE),
    JNum(FLARM * Scale)>>

JsonRowBadSpi == [JsonRowNull EXCEPT ![16] = JStr("invalid_spi")]

JsonRows == {JsonRowNull, JsonRowSensors, JsonRowFull, JsonRowBadSpi}

Bodies ==
  {[json |-> FALSE, time |-> JNull, states |-> [k |-> "null", rows |-> <<>>]]}
  \cup {[json |-> TRUE, time |-> tm, states |-> st] :
          tm \in {JNull, JNum(0), JNum(MaxTime * Scale), JNum(Scale + 1), JStr("now")},
          st \in {[k |-> "null", rows |-> <<>>], [k |-> "string", rows |-> <<>>]}
                 \cup {[k |-> "rows", rows |-> q] : q \in SeqsUpTo(JsonRows, MaxRecords)}}

\* What the HTTP exchange can produce: a failed request, a body that cannot
\* be read, or a status code with a body.
Replies ==
  {[doErr |-> TRUE, readErr |-> FALSE, status |-> 0, body |-> <<>>],
   [doErr |-> FALSE, readErr |-> TRUE, status |-> StatusOK, body |-> <<>>]}
  \cup {[doErr |-> FALSE, readErr |-> FALSE, status |-> st, body |-> b] :
          st \in {StatusOK, StatusOK + 1, 2 * StatusOK + 4}, b \in Bodies}

InitGetStates ==
  /\ call \in Callers
  /\ caller = call
  /\ reply \in Replies
  /\ rawResponse = [Time |-> 0, States |-> NilSlice]
  /\ s = <<>> /\ i = 0
  /\ val = Nil /\ target = ZeroUnixTime

Init ==
  /\ \/ InitParseState \/ InitParseStatesResponse \/ InitCoercion
     \/ InitUnmarshalJSON \/ InitGetStates
  /\ out = NoOutput
  /\ pc = "start"
  /\ state = ZeroState
  /\ err = NoError
  /\ response = ZeroResponse
  /\ respErr = NoError
  /\ n = 0

\* A call of parseState(s, i).
ParseState ==
  /\ call = "parseState"
  /\ pc = "start"
  /\ state' = parseState(s, i).state
  /\ err' = parseState(s, i).err
  /\ pc' = "done"
  /\ UNCHANGED <<call, s, i, rawResponse, response, respErr, n, val, target, out, caller, reply>>

\* Mutant: the capture time passed as the nanoseconds of time.Unix(0, nsec).
SetTimeAsNanos ==
  /\ call = "parseStatesResponse"
  /\ pc = "start"
  /\ response' = [response EXCEPT
                    !.Time = newUnixTime(IF rawResponse.Time < 0 THEN -1 ELSE 0)]
  /\ pc' = "loop"
  /\ UNCHANGED <<call, s, i, state, err, rawResponse, respErr, n, val, target, out, caller, reply>>

\* parseStatesResponse, before the loop: response.Time = time.Unix(Time, 0).
SetTime ==
  /\ call = "parseStatesResponse"
  /\ pc = "start"
  /\ response' = [response EXCEPT !.Time = newUnixTime(rawResponse.Time)]
  /\ pc' = "loop"
  /\ UNCHANGED <<call, s, i, state, err, rawResponse, respErr, n, val, target, out, caller, reply>>

\* Mutant: the new State is put in front.
AddStateFront(states, st) == <<st>> \o states

\* The State sequence after one more record decoded.
AddState(states, st) == Append(states, st)

\* Mutant: the error is recorded but the loop goes on to the next record.
DecodeRecordKeepsGoing ==
  /\ call = "parseStatesResponse"
  /\ pc = "loop"
  /\ n < Len(rawResponse.States.elems)
  /\ LET r == parseState(rawResponse.States.elems[n + 1], n) IN
       /\ respErr' = r.err
       /\ response' = IF r.err # NoError THEN response
                      ELSE [response EXCEPT !.States = AddState(@, r.state)]
       /\ n' = n + 1
       /\ pc' = "loop"
  /\ UNCHANGED <<call, s, i, state, err, rawResponse, val, target, out, caller, reply>>

\* One iteration of "for i, s := range rawResponse.States": the record is
\* decoded; on an error the function returns what response holds by then,
\* otherwise the State is appended.
DecodeRecord ==
  /\ call = "parseStatesResponse"
  /\ pc = "loop"
  /\ n < Len(rawResponse.States.elems)
  /\ LET r == parseState(rawResponse.States.elems[n + 1], n) IN
       /\ respErr' = r.err
       /\ IF r.err # NoError
            THEN /\ pc' = "done"
                 /\ UNCHANGED <<response, n>>
            ELSE /\ response' = [response EXCEPT !.States = AddState(@, r.state)]
                 /\ n' = n + 1
                 /\ pc' = "loop"
  /\ UNCHANGED <<call, s, i, state, err, rawResponse, val, target, out, caller, reply>>

\* The return after the last record.
ReturnResponse ==
  /\ call = "parseStatesResponse"
  /\ pc = "loop"
  /\ n = Len(rawResponse.States.elems)
  /\ pc' = "done"
  /\ UNCHANGED <<call, s, i, state, err, rawResponse, response, respErr, n, val, target, out, caller, reply>>

\* A call of jsonNumberToInt(val).
JsonNumberToInt ==
  /\ call = "jsonNumberToInt"
  /\ pc = "start"
  /\ out' = jsonNumberToInt(val)
  /\ pc' = "done"
  /\ UNCHANGED <<call, s, i, state, err, rawResponse, response, respErr, n,
                 val, target, caller, reply>>

\* A call of jsonNumberArrayToIntArray(val).
JsonNumberArrayToIntArray ==
  /\ call = "jsonNumberArrayToIntArray"
  /\ pc = "start"
  /\ out' = jsonNumberArrayToIntArray(val)
  /\ pc' = "done"
  /\ UNCHANGED <<call, s, i, state, err, rawResponse, response, respErr, n,
                 val, target, caller, reply>>

\* A call of target.UnmarshalJSON(val).
UnmarshalUnixTime ==
  /\ call = "UnmarshalJSON"
  /\ pc = "start"
  /\ out' = UnmarshalJSON(target, val)
  /\ pc' = "done"
  /\ UNCHANGED <<call, s, i, state, err, rawResponse, response, respErr, n,
                 val, target, caller, reply>>

\* GetStates and GetOwnStates from "Fetch response" on: doHTTP fills
\* rawResponse; on its error the function returns with response untouched,
\* otherwise it returns what parseStatesResponse(rawResponse) returns.
FetchResponse ==
  /\ call \in Callers
  /\ pc = "start"
  /\ IF doHTTP(reply).err # NoError
       THEN /\ respErr' = doHTTP(reply).err
            /\ pc' = "done"
            /\ UNCHANGED <<call, rawResponse>>
       ELSE /\ rawResponse' = doHTTP(reply).raw
            /\ call' = "parseStatesResponse"
            /\ pc' = "start"
            /\ UNCHANGED respErr
  /\ UNCHANGED <<s, i, state, err, response, n, val, target, out, caller, reply>>

Next ==
  \/ ParseState \/ SetTime \/ DecodeRecord \/ ReturnResponse
  \/ JsonNumberToInt \/ JsonNumberArrayToIntArray \/ UnmarshalUnixTime
  \/ FetchResponse

Spec == Init /\ [][Next]_vars

\* ------------------------------------------------------------ properties
\* The wire contract the properties are stated against (independent of the
\* decoder above): the argument at 0-based position k, and the decoded types
\* each position admits.
Input(k) == s[k + 1]

RequiredFields == {0, 2, 4, 8, 15, 16}
PermissiveFields == {5, 6, 7, 9, 10, 11, 13}
ValidatedFields == {1, 3, 12, 14}

WireType(k) ==
  CASE k \in {0, 1, 2, 14} -> "string"
    [] k \in {3, 4, 16} -> "float64"
    [] k \in {8, 15} -> "bool"
    [] k = 12 -> "[]float64"
    [] OTHER -> "float64"

Admits(k, v) ==
  \/ v.t = WireType(k)
  \/ k \in ValidatedFields /\ v.t = "nil"
  \/ k \in PermissiveFields

\* The field of a State that position k of the wire layout is decoded into.
Pointer(st, k) ==
  CASE k = 5 -> st.Longitude
    [] k = 6 -> st.Latitude
    [] k = 7 -> st.BarometricAltitude
    [] k = 9 -> st.Velocity
    [] k = 10 -> st.Heading
    [] k = 11 -> st.VerticalRate
    [] k = 13 -> st.GeoAltitude

Cleared(st, k) ==
  CASE k = 5 -> [st EXCEPT !.Longitude = NilPtr]
    [] k = 6 -> [st EXCEPT !.Latitude = NilPtr]
    [] k = 7 -> [st EXCEPT !.BarometricAltitude = NilPtr]
    [] k = 9 -> [st EXCEPT !.Velocity = NilPtr]
    [] k = 10 -> [st EXCEPT !.Heading = NilPtr]
    [] k = 11 -> [st EXCEPT !.VerticalRate = NilPtr]
    [] k = 13 -> [st EXCEPT !.GeoAltitude = NilPtr]

Returned == call = "parseState" /\ pc = "done"

BatchReturned == call = "parseStatesResponse" /\ pc = "done"

Records == rawResponse.States.elems

\* C1: whenever some record of the envelope fails parseState, the call
\* returns a non-nil error and a response whose States sequence is empty.
C1_NoPartialSequence ==
  (BatchReturned /\ \E k \in 1 .. Len(Records) : parseState(Records[k], k - 1).err # NoError)
    => (respErr # NoError /\ response.States = <<>>)

\* C2: a record of at least 17 elements in which a required field (0, 2, 4,
\* 8, 15 or 16) has another decoded type than the wire type, or is null, is
\* rejected with an error whatever the other fields hold.
C2_RequiredStrict ==
  (Returned /\ Len(s) >= NumFields
     /\ \E k \in RequiredFields : Input(k).t # WireType(k))
    => err # NoError

C2_Witness ==
  /\ Returned /\ Len(s) = NumFields
  /\ Input(8).t = "string" /\ Input(5).t = "[]float64" /\ Input(15).t = "bool"
  /\ err.msg = "invalid on_ground value"

\* C3: in a record that decodes once position k holds a float, a non-float
\* value (wrong-typed or null) at a permissive position k (5, 6, 7, 9, 10, 11,
\* 13) still decodes, leaves the corresponding State field nil, and leaves
\* every other State field as it is with a float at position k.
C3_PermissiveDrops ==
  (Returned /\ Len(s) >= NumFields) =>
    \A k \in PermissiveFields :
      (/\ Input(k).t # "float64"
       /\ \A j \in Positions \ {k} : Admits(j, Input(j)))
        => /\ err = NoError
           /\ Pointer(state, k).nil
           /\ \A f \in FloatNums :
                LET r == parseState(Replace(s, k, Float(f)), i) IN
                  /\ r.err = NoError
                  /\ Pointer(r.state, k) = Ptr(f)
                  /\ Cleared(r.state, k) = state

C3_Witness ==
  /\ Returned /\ Len(s) = NumFields
  /\ Input(6).t = "string" /\ Input(5).t = "float64" /\ Input(7).t = "float64"
  /\ err = NoError /\ state.Latitude.nil /\ ~state.Longitude.nil
  /\ ~state.BarometricAltitude.nil

\* C4: at a validated-optional position (1 callsign, 3 time_position,
\* 12 sensors, 14 squawk) of an otherwise valid record, null decodes with the
\* field absent, and a non-null value of the wrong decoded type is an error.
C4_ValidatedOptional ==
  (Returned /\ Len(s) >= NumFields) =>
    \A k \in ValidatedFields :
      /\ (Input(k).t = "nil" /\ \A j \in Positions \ {k} : Admits(j, Input(j)))
           => /\ err = NoError
              /\ k = 1 => state.CallSign = ""
              /\ k = 3 => state.TimePosition.nil
              /\ k = 12 => state.Sensors.nil
              /\ k = 14 => state.Squawk = ""
      /\ (Input(k).t \notin {"nil", WireType(k)}) => err # NoError

C4_Witness ==
  /\ Returned /\ Len(s) = NumFields
  /\ Input(12).t = "[]int" /\ Input(14).t = "nil"
  /\ \A j \in Positions \ {12} : Admits(j, Input(j))
  /\ err.msg = "invalid sensors value"

\* C5: a record of fewer than 17 elements is rejected with the shape error,
\* which carries the actual element count and the record index and nothing
\* taken from the elements.
C5_ShortRecord ==
  (Returned /\ Len(s) < NumFields)
    => /\ err.msg = "invalid state object"
       /\ err.count = Len(s)
       /\ err.position = i
       /\ err.value = Nil /\ err.wraps = ""
       /\ state = ZeroState

C5_Witness ==
  /\ Returned /\ Len(s) = NumFields - 1 /\ i = MaxIndex
  /\ Input(0).t # "string"
  /\ err.msg = "invalid state object" /\ err.count = NumFields - 1

\* C6: a 17-element record whose every field holds a value of its wire type
\* (whole numbers where the wire type is an integer) decodes, and every State
\* field equals the input at its own position.
C6_Populated ==
  /\ Len(s) = NumFields
  /\ \A k \in Positions : Input(k).t = WireType(k)
  /\ \A k \in {3, 4, 16} : IsIntegral(Input(k).f)
  /\ \A k \in 1 .. Len(Input(12).a) : IsIntegral(Input(12).a[k])

C6_HappyPathIdentity ==
  (Returned /\ C6_Populated) =>
    /\ err = NoError
    /\ state.ICAO24 = Input(0).s
    /\ state.CallSign = Input(1).s
    /\ state.OriginCountry = Input(2).s
    /\ ~state.TimePosition.nil /\ ~state.TimePosition.v.zero
    /\ state.TimePosition.v.sec * Scale = Input(3).f
    /\ ~state.LastContact.zero /\ state.LastContact.sec * Scale = Input(4).f
    /\ state.Longitude = Ptr(Input(5).f)
    /\ state.Latitude = Ptr(Input(6).f)
    /\ state.BarometricAltitude = Ptr(Input(7).f)
    /\ state.OnGround = Input(8).b
    /\ state.Velocity = Ptr(Input(9).f)
    /\ state.Heading = Ptr(Input(10).f)
    /\ state.VerticalRate = Ptr(Input(11).f)
    /\ Len(state.Sensors.elems) = Len(Input(12).a)
    /\ \A k \in 1 .. Len(Input(12).a) : state.Sensors.elems[k] * Scale = Input(12).a[k]
    /\ state.GeoAltitude = Ptr(Input(13).f)
    /\ state.Squawk = Input(14).s
    /\ state.Spi = Input(15).b
    /\ state.PositionSource * Scale = Input(16).f

C6_Witness ==
  /\ Returned /\ C6_Populated /\ err = NoError
  /\ state.Longitude # state.Latitude /\ state.ICAO24 # state.Squawk
  /\ state.OnGround # state.Spi /\ state.TimePosition.v # state.LastContact
  /\ Len(state.Sensors.elems) = 2

\* C7: whenever parseState returns an error, the State returned with it is
\* the zero State.
C7_ZeroStateOnError ==
  (Returned /\ err # NoError) => state = ZeroState

C7_Witness ==
  /\ Returned /\ Len(s) = NumFields
  /\ \A j \in Positions \ {16} : Input(j).t = WireType(j)
  /\ err.msg = "invalid position_source value" /\ state = ZeroState

\* C8 as stated: a record whose field 16 is a number other than 0, 1, 2 or 3
\* is rejected with an error.
C8_ClosedEnumeration ==
  (Returned /\ Len(s) >= NumFields /\ Input(16).t = "float64"
     /\ Input(16).f \notin {c * Scale : c \in PositionSources})
    => err # NoError

\* C8 as amended: in a record whose positions 0..15 pass, position 16 raises
\* an error exactly when it is not a float number; a number outside 0..3 is
\* accepted without error.
C8_OnlyTypeChecked ==
  (Returned /\ Len(s) >= NumFields /\ \A j \in 0 .. 15 : Admits(j, Input(j)))
    => /\ err # NoError <=> Input(16).t # "float64"
       /\ err # NoError => err.msg = "invalid position_source value"

C8_Witness ==
  /\ Returned /\ Len(s) = NumFields
  /\ Input(16) = Float(MaxNum * Scale + 1)
  /\ err = NoError

\* C9: an otherwise valid record whose field 16 is any float number decodes,
\* and PositionSource is that number truncated toward zero, also outside 0..3
\* and below zero.
C9_AnyPositionSource ==
  (Returned /\ Len(s) >= NumFields /\ \A j \in 0 .. 15 : Admits(j, Input(j))
     /\ Input(16).t = "float64")
    => /\ err = NoError
       /\ Input(16).f >= 0 =>
            /\ state.PositionSource * Scale <= Input(16).f
            /\ Input(16).f < (state.PositionSource + 1) * Scale
       /\ Input(16).f < 0 =>
            /\ state.PositionSource * Scale >= Input(16).f
            /\ Input(16).f > (state.PositionSource - 1) * Scale

C9_Witness ==
  /\ Returned /\ Len(s) = NumFields /\ Input(16) = Float(-(MaxNum * Scale))
  /\ err = NoError /\ state.PositionSource = -MaxNum

\* C10: when every record of the envelope decodes, the returned States has
\* the length of the record list and its k-th element is parseState of the
\* k-th record with index k.
C10_OrderAndCount ==
  (BatchReturned /\ \A k \in 1 .. Len(Records) : parseState(Records[k], k - 1).err = NoError)
    => /\ respErr = NoError
       /\ Len(response.States) = Len(Records)
       /\ \A k \in 1 .. Len(Records) :
            response.States[k] = parseState(Records[k], k - 1).state

C10_Witness ==
  /\ BatchReturned /\ respErr = NoError
  /\ Len(Records) = MaxRecords /\ Len(response.States) = MaxRecords
  /\ response.States[1] # response.States[MaxRecords]

\* The 1-based places of the records of the envelope that parseState rejects.
Failing == {k \in 1 .. Len(Records) : parseState(Records[k], k - 1).err # NoError}

FirstFailing == CHOOSE k \in Failing : \A j \in Failing : k <= j

\* C11: the loop index only ever advances by one; when some record fails,
\* the call returns the error parseState gave for the lowest-index failing
\* record, carrying that index, with the loop index still at that record, so
\* that no later record was decoded.
C11_StopsAtFirstFailure ==
  /\ (call = "parseStatesResponse" /\ pc = "loop") =>
       \A k \in 1 .. n : parseState(Records[k], k - 1).err = NoError
  /\ (BatchReturned /\ Failing # {}) =>
       /\ respErr = parseState(Records[FirstFailing], FirstFailing - 1).err
       /\ respErr # NoError
       /\ respErr.position = FirstFailing - 1
       /\ n = FirstFailing - 1
       /\ Len(response.States) = n

C11_Witness ==
  /\ BatchReturned /\ Len(Records) = MaxRecords
  /\ Failing = 1 .. MaxRecords
  /\ parseState(Records[1], 0).err.msg # parseState(Records[MaxRecords], MaxRecords - 1).err.msg
  /\ respErr.msg = parseState(Records[1], 0).err.msg /\ n = 0

\* C12: on an empty or nil record list the call returns no error, no States,
\* and Time = the capture time as seconds after the epoch, for every capture
\* time.
C12_EmptyEnvelope ==
  (BatchReturned /\ Len(Records) = 0)
    => /\ respErr = NoError
       /\ response.States = <<>>
       /\ ~response.Time.zero
       /\ response.Time.sec = rawResponse.Time

C12_Witness ==
  /\ BatchReturned /\ rawResponse.States.nil /\ rawResponse.Time = -MaxTime
  /\ respErr = NoError /\ response.Time.sec = -MaxTime /\ response.States = <<>>

\* C13: jsonNumberToInt returns, for a float, no error and the float
\* truncated toward zero (a negative fraction goes up, not down), and for a
\* value of any other decoded type an error and the integer 0.
C13_NumberCoercion ==
  (call = "jsonNumberToInt" /\ pc = "done") =>
    IF val.t = "float64"
      THEN /\ out.err = NoError
           /\ val.f >= 0 => (out.i * Scale <= val.f /\ val.f < (out.i + 1) * Scale)
           /\ val.f < 0 => (out.i * Scale >= val.f /\ val.f > (out.i - 1) * Scale)
      ELSE /\ out.err # NoError
           /\ out.err.value = val
           /\ out.i = 0

C13_Witness ==
  /\ call = "jsonNumberToInt" /\ pc = "done"
  /\ val = Float(-(Scale + 1)) /\ out.i = -1 /\ out.err = NoError

\* C14: jsonNumberArrayToIntArray returns, for a []float64, no error and the
\* elements truncated toward zero in the same number and order, and for a
\* value of any other shape an error and a nil sequence.
C14_ArrayCoercion ==
  (call = "jsonNumberArrayToIntArray" /\ pc = "done") =>
    IF val.t = "[]float64"
      THEN /\ out.err = NoError
           /\ Len(out.a.elems) = Len(val.a)
           /\ \A k \in 1 .. Len(val.a) :
                LET x == val.a[k]
                    y == out.a.elems[k] IN
                  /\ x >= 0 => (y * Scale <= x /\ x < (y + 1) * Scale)
                  /\ x < 0 => (y * Scale >= x /\ x > (y - 1) * Scale)
      ELSE /\ out.err # NoError
           /\ out.a = NilSlice

C14_Witness ==
  /\ call = "jsonNumberArrayToIntArray" /\ pc = "done"
  /\ val = FloatArray(<<MaxNum * Scale + 1, -(Scale + 1)>>)
  /\ out.a = Slice(<<MaxNum, -1>>) /\ out.err = NoError

Unmarshalled == call = "UnmarshalJSON" /\ pc = "done"

\* C15 as stated: null decodes to the value the integer literal 0 decodes
\* to, which is newUnixTime(0).
C15_NullIsEpochZero ==
  (Unmarshalled /\ val = NullLiteral)
    => /\ out.t = newUnixTime(0)
       /\ out.t = UnmarshalJSON(target, <<"0">>).t

\* C15 as amended: null decodes without error to the zero UnixTime (the
\* zero time.Time, IsZero), whatever the target held; the integer literal 0
\* decodes to newUnixTime(0), the epoch, and the two values differ.
C15_NullIsZeroTime ==
  /\ (Unmarshalled /\ val = NullLiteral)
       => /\ out.err = NoError
          /\ out.t.zero
          /\ out.t # newUnixTime(0)
  /\ (Unmarshalled /\ val = <<"0">>)
       => /\ out.err = NoError
          /\ ~out.t.zero /\ out.t.sec = 0

C15_Witness ==
  /\ Unmarshalled /\ val = NullLiteral /\ target = newUnixTime(MaxTime)
  /\ out.t.zero /\ out.err = NoError

\* The JSON grammar of the texts: an integer literal is an optional minus
\* and digits without a leading zero; a number may go on with a fraction
\* and an exponent.
AllDigits(q) == q # <<>> /\ \A k \in 1 .. Len(q) : q[k] \in Digits

IsJsonInt(q) ==
  LET body == IF q # <<>> /\ q[1] = "-" THEN Tail(q) ELSE q IN
    AllDigits(body) /\ (Len(body) = 1 \/ body[1] # "0")

IsFraction(q) == Len(q) >= 2 /\ q[1] = "." /\ AllDigits(Tail(q))

IsExponent(q) ==
  /\ Len(q) >= 2 /\ q[1] \in {"e", "E"}
  /\ \/ AllDigits(Tail(q))
     \/ Len(q) >= 3 /\ q[2] \in {"+", "-"} /\ AllDigits(Tail(Tail(q)))

IsJsonNonInt(q) ==
  \E a \in 1 .. Len(q) :
    /\ IsJsonInt(SubSeq(q, 1, a))
    /\ LET rest == SubSeq(q, a + 1, Len(q)) IN
         \/ IsFraction(rest)
         \/ IsExponent(rest)
         \/ \E b \in 1 .. Len(rest) :
              IsFraction(SubSeq(rest, 1, b)) /\ IsExponent(SubSeq(rest, b + 1, Len(rest)))

IsJsonOther(q) ==
  \/ q \in {<<"{", "}">>, <<"[", "]">>, <<"[", "1", "]">>, <<"t", "r", "u", "e">>}
  \/ Len(q) >= 2 /\ q[1] = "\"" /\ q[Len(q)] = "\""
       /\ \A k \in 2 .. (Len(q) - 1) : q[k] # "\""

\* The integer a JSON integer literal denotes, digit by digit.
RECURSIVE Denotes(_, _)
Denotes(q, x) ==
  /\ Len(q) >= 1
  /\ IF Len(q) = 1 THEN x = DigitValue(q[1])
     ELSE /\ x >= 0
          /\ x % 10 = DigitValue(q[Len(q)])
          /\ Denotes(SubSeq(q, 1, Len(q) - 1), x \div 10)

\* C16: over the JSON texts, UnmarshalJSON succeeds exactly on null and on
\* the integer literals; an integer literal n yields the time n seconds
\* after the epoch; a string, an object, an array, a fractional or an
\* exponent number yields an error; and every error leaves the target as it
\* was.
C16_UnmarshalUnixTime ==
  Unmarshalled =>
    /\ out.err # NoError => out.t = target
    /\ IsJsonInt(val) =>
         /\ out.err = NoError
         /\ ~out.t.zero
         /\ IF val[1] = "-" THEN Denotes(Tail(val), -out.t.sec)
            ELSE Denotes(val, out.t.sec)
    /\ val = NullLiteral => out.err = NoError
    /\ (IsJsonNonInt(val) \/ IsJsonOther(val)) => out.err # NoError

C16_Witness ==
  /\ Unmarshalled /\ val = <<"1", ".", "7">> /\ target = newUnixTime(MaxTime)
  /\ out.err # NoError /\ out.t = newUnixTime(MaxTime)

\* The wire contract of a response body: the JSON kinds each position of a
\* record admits, sensors being an array of numbers.
JsonKind(k) ==
  CASE k \in {0, 1, 2, 14} -> "string"
    [] k \in {8, 15} -> "bool"
    [] k = 12 -> "array"
    [] OTHER -> "number"

JsonAdmits(k, j) ==
  \/ j.k = JsonKind(k)
  \/ k \notin RequiredFields /\ j.k = "null"

ValidRow(row) ==
  /\ Len(row) = NumFields
  /\ \A k \in Positions : JsonAdmits(k, row[k + 1])

\* The numbers of a JSON array truncated toward zero, as a predicate.
Truncates(x, y) ==
  /\ x >= 0 => (y * Scale <= x /\ x < (y + 1) * Scale)
  /\ x < 0 => (y * Scale >= x /\ x > (y - 1) * Scale)

Delivered ==
  /\ caller \in Callers /\ ~reply.doErr /\ ~reply.readErr /\ reply.status = StatusOK
  /\ reply.body.json /\ reply.body.states.k = "rows"
  /\ \/ reply.body.time.k = "null"
     \/ reply.body.time.k = "number" /\ reply.body.time.f % Scale = 0

\* C17: when the envelope comes from the wire decoder and every record is
\* valid by the wire contract, a sensors field that is a JSON array of
\* numbers decodes: the call returns no error and each State holds those
\* numbers truncated to integers.
C17_WireSensorsAccepted ==
  (Delivered /\ call = "parseStatesResponse" /\ pc = "done"
     /\ \A r \in 1 .. Len(reply.body.states.rows) : ValidRow(reply.body.states.rows[r]))
    => /\ respErr = NoError
       /\ Len(response.States) = Len(reply.body.states.rows)
       /\ \A r \in 1 .. Len(reply.body.states.rows) :
            LET a == reply.body.states.rows[r][13].a IN
              /\ Len(response.States[r].Sensors.elems) = Len(a)
              /\ \A k \in 1 .. Len(a) :
                   Truncates(a[k], response.States[r].Sensors.elems[k])

\* The positions of the record that break the wire contract, and the
\* message the contract gives each hard-validated position.
Violated == {k \in Positions : ~Admits(k, Input(k))}

Lowest(S) == CHOOSE k \in S : \A j \in S : k <= j

MessageOf(k) ==
  CASE k = 0 -> "invalid icao24 value"
    [] k = 1 -> "invalid callsign value"
    [] k = 2 -> "invalid origin_country value"
    [] k = 3 -> "invalid time_position value"
    [] k = 4 -> "invalid last_contact value"
    [] k = 8 -> "invalid on_ground value"
    [] k = 12 -> "invalid sensors value"
    [] k = 14 -> "invalid squawk value"
    [] k = 15 -> "invalid spi value"
    [] k = 16 -> "invalid position_source value"

\* C18: the length check comes first (a short record gets the shape error
\* whatever its fields hold), and a record of at least 17 elements that
\* violates one or more hard-validated fields is rejected with the error of
\* the violated field of lowest position, carrying that field's value and
\* the record index passed in.
C18_FirstViolation ==
  /\ (Returned /\ Len(s) < NumFields) => err.msg = "invalid state object"
  /\ (Returned /\ Len(s) >= NumFields /\ Violated # {})
       => /\ err.msg = MessageOf(Lowest(Violated))
          /\ err.value = Input(Lowest(Violated))
          /\ err.position = i

C18_Witness ==
  /\ Returned /\ Len(s) = NumFields /\ i = MaxIndex
  /\ Violated = {3, 4, 8, 12, 14, 15, 16}
  /\ err.msg = "invalid time_position value" /\ err.position = MaxIndex

\* A body that is JSON of the envelope's shape: an object whose "time" is an
\* integer (or null or missing) and whose "states" is an array of arrays
\* (or null or missing).
EnvelopeJson(b) ==
  /\ b.json
  /\ b.time.k = "null" \/ (b.time.k = "number" /\ b.time.f % Scale = 0)
  /\ b.states.k \in {"null", "rows"}

TransportFails ==
  \/ reply.doErr
  \/ reply.readErr
  \/ reply.status # 200
  \/ ~EnvelopeJson(reply.body)

\* C19: in GetStates and GetOwnStates, when the HTTP call fails, the body
\* cannot be read, the status is not 200 or the body is not JSON of the
\* envelope's shape, parseStatesResponse is never entered, the response stays
\* zero-valued (zero Time, no States) and the call ends with a non-nil error,
\* which for an error status carries the status code.
C19_TransportFailsFirst ==
  (caller \in Callers /\ TransportFails)
    => /\ call = caller
       /\ response = ZeroResponse /\ response.States = <<>>
       /\ n = 0
       /\ pc \in {"start", "done"}
       /\ pc = "start" => respErr = NoError
       /\ pc = "done"
            => /\ respErr # NoError
               /\ (~reply.doErr /\ ~reply.readErr /\ reply.status # 200)
                    => (respErr.msg = "status" /\ respErr.count = reply.status)

C19_Witness ==
  /\ caller = "GetOwnStates" /\ pc = "done"
  /\ ~reply.doErr /\ ~reply.readErr /\ reply.status = 404
  /\ EnvelopeJson(reply.body) /\ reply.body.states.k = "rows"
  /\ Len(reply.body.states.rows) = MaxRecords
  /\ respErr.count = 404 /\ response = ZeroResponse

====
